---- MODULE Spec2Model ----
(***************************************************************************)
(* A model of winpty's unix adapter (src/unix-adapter/main.cc): the        *)
(* argument parser, the command-line codec, the terminal mode controller,  *)
(* the session launcher, the main control loop with its wakeup, and the    *)
(* shutdown sequence.                                                      *)
(***************************************************************************)
EXTENDS Integers, Sequences, FiniteSets, TLC

(***************************************************************************)
(* Bounds of the model.                                                    *)
(***************************************************************************)
\* most arguments in a child argument vector
MaxArgc == 3
\* most characters in a child argument vector, all arguments together
MaxTotalLen == 4
\* most terminal resizes in one run
MaxResizes == 2
\* most arguments after argv[0] on a command line
MaxArgs == 3

(***************************************************************************)
(* Characters are their codes.                                             *)
(***************************************************************************)
SP == 32
TAB == 9
QUOTE == 34
BS == 92
CH == 97

Alphabet == {SP, TAB, QUOTE, BS, CH}

\* strchr(arg, c) != NULL
StrChr(arg, c) == \E k \in 1..Len(arg) : arg[k] = c

\* std::string::append(n, c)
Rep(n, c) == [k \in 1..n |-> c]

RECURSIVE SumLen(_)
SumLen(argv) == IF argv = << >> THEN 0 ELSE Len(Head(argv)) + SumLen(Tail(argv))

\* the strings of exactly n characters
RECURSIVE StringsOfLen(_)
StringsOfLen(n) ==
    IF n = 0 THEN { << >> }
    ELSE { Append(s, c) : s \in StringsOfLen(n - 1), c \in Alphabet }

Strings(n) == UNION { StringsOfLen(k) : k \in 0..n }

(***************************************************************************)
(* argvToCommandLine: the inner loop over the characters of one argument,  *)
(* from position p with bsCount backslashes pending, appending to result.  *)
(* Returns the pair <<result, bsCount>> at the end of the argument.        *)
(***************************************************************************)
\* ArgLoop with the backslashes before a quote doubled and the quote not escaped
RECURSIVE ArgLoop_QuoteNotEscaped(_, _, _, _)
ArgLoop_QuoteNotEscaped(arg, p, bsCount, result) ==
    IF p > Len(arg) THEN << result, bsCount >>
    ELSE IF arg[p] = BS THEN ArgLoop_QuoteNotEscaped(arg, p + 1, bsCount + 1, result)
    ELSE IF arg[p] = QUOTE THEN
        ArgLoop_QuoteNotEscaped(arg, p + 1, 0, result \o Rep(bsCount * 2, BS) \o << QUOTE >>)
    ELSE
        ArgLoop_QuoteNotEscaped(arg, p + 1, 0, result \o Rep(bsCount, BS) \o << arg[p] >>)

RECURSIVE ArgLoop(_, _, _, _)
ArgLoop(arg, p, bsCount, result) ==
    IF p > Len(arg) THEN << result, bsCount >>
    ELSE IF arg[p] = BS THEN ArgLoop(arg, p + 1, bsCount + 1, result)
    ELSE IF arg[p] = QUOTE THEN
        ArgLoop(arg, p + 1, 0, result \o Rep(bsCount * 2 + 1, BS) \o << QUOTE >>)
    ELSE
        ArgLoop(arg, p + 1, 0, result \o Rep(bsCount, BS) \o << arg[p] >>)

\* const bool quote = strchr(arg, ' ') || strchr(arg, '\t') || *arg == '\0'
NeedsQuote(arg) == StrChr(arg, SP) \/ StrChr(arg, TAB) \/ arg = << >>

\* AppendArg without the doubling of the backslashes before the closing quote
AppendArg_NoTrailingDouble(result, arg, first) ==
    LET r0 == IF first THEN result ELSE Append(result, SP)
        quote == NeedsQuote(arg)
        r1 == IF quote THEN Append(r0, QUOTE) ELSE r0
        lp == ArgLoop(arg, 1, 0, r1)
    IN  IF quote THEN lp[1] \o Rep(lp[2], BS) \o << QUOTE >>
        ELSE lp[1] \o Rep(lp[2], BS)

\* one iteration of the outer loop: result after argument argIndex is appended
AppendArg(result, arg, first) ==
    LET r0 == IF first THEN result ELSE Append(result, SP)
        quote == NeedsQuote(arg)
        r1 == IF quote THEN Append(r0, QUOTE) ELSE r0
        lp == ArgLoop(arg, 1, 0, r1)
    IN  IF quote THEN lp[1] \o Rep(lp[2] * 2, BS) \o << QUOTE >>
        ELSE lp[1] \o Rep(lp[2], BS)

RECURSIVE ArgvLoop(_, _, _)
ArgvLoop(argv, argIndex, result) ==
    IF argIndex > Len(argv) THEN result
    ELSE ArgvLoop(argv, argIndex + 1, AppendArg(result, argv[argIndex], argIndex = 1))

argvToCommandLine(argv) == ArgvLoop(argv, 1, << >>)

(***************************************************************************)
(* The platform's argument splitting, run by the runtime of the spawned    *)
(* process on the command line it is created with.                         *)
(***************************************************************************)
\* the number of consecutive backslashes of cmd from position k
RECURSIVE BsRun(_, _)
BsRun(cmd, k) == IF k <= Len(cmd) /\ cmd[k] = BS THEN 1 + BsRun(cmd, k + 1) ELSE 0

RECURSIVE SplitFrom(_, _, _, _, _, _)
SplitFrom(cmd, k, inQuote, started, cur, out) ==
    IF k > Len(cmd) THEN (IF started THEN Append(out, cur) ELSE out)
    ELSE IF cmd[k] = BS THEN
        LET n == BsRun(cmd, k)
            quoteNext == k + n <= Len(cmd) /\ cmd[k + n] = QUOTE
        IN  IF ~quoteNext THEN
                SplitFrom(cmd, k + n, inQuote, TRUE, cur \o Rep(n, BS), out)
            ELSE IF n % 2 = 0 THEN
                SplitFrom(cmd, k + n + 1, ~inQuote, TRUE, cur \o Rep(n \div 2, BS), out)
            ELSE
                SplitFrom(cmd, k + n + 1, inQuote, TRUE,
                          cur \o Rep(n \div 2, BS) \o << QUOTE >>, out)
    ELSE IF cmd[k] = QUOTE THEN
        SplitFrom(cmd, k + 1, ~inQuote, TRUE, cur, out)
    ELSE IF cmd[k] \in {SP, TAB} /\ ~inQuote THEN
        IF started THEN SplitFrom(cmd, k + 1, FALSE, FALSE, << >>, Append(out, cur))
        ELSE SplitFrom(cmd, k + 1, FALSE, FALSE, << >>, out)
    ELSE
        SplitFrom(cmd, k + 1, inQuote, TRUE, Append(cur, cmd[k]), out)

CommandLineToArgv(cmd) == SplitFrom(cmd, 1, FALSE, FALSE, << >>, << >>)

\* "--child-exec"
ChildExecMarker == << 45, 45, 99, 104, 105, 108, 100, 45, 101, 120, 101, 99 >>

\* the module path GetModuleFileNameW reports: C:\a b\w
SelfPath == << 67, 58, BS, CH, SP, 98, BS, 119 >>

\* heapMbsToWcs: each byte of the alphabet converts to the wide character of
\* the same code, and the result ends at the terminating NUL
heapMbsToWcs(text) == [k \in 1..Len(text) |-> text[k]]

\* cmdLineW: "<selfPath>" --child-exec <childCmdLineW>
BuildCmdLineW(selfPath, childCmdLine) ==
    << QUOTE >> \o selfPath \o << QUOTE, SP >> \o ChildExecMarker \o << SP >>
        \o heapMbsToWcs(childCmdLine)

\* main of the spawned process: with --child-exec as argv[1] (argc >= 3), the
\* argument vector handed to execvp is argv[2..]
ChildExecArgv(argv) ==
    IF Len(argv) >= 3 /\ argv[2] = ChildExecMarker
    THEN [exec |-> TRUE, argv |-> SubSeq(argv, 3, Len(argv))]
    ELSE [exec |-> FALSE, argv |-> << >>]

NoExec == [exec |-> FALSE, argv |-> << >>]

(***************************************************************************)
(* The arguments of the command line, as parseArguments compares them.     *)
(***************************************************************************)
\* '-'
DASH == 45

\* "-h"
OptH == << 45, 104 >>
\* "--help"
OptHelp == << 45, 45, 104, 101, 108, 112 >>
\* "--mouse"
OptMouse == << 45, 45, 109, 111, 117, 115, 101 >>
\* "--showkey"
OptShowkey == << 45, 45, 115, 104, 111, 119, 107, 101, 121 >>
\* "--version"
OptVersion == << 45, 45, 118, 101, 114, 115, 105, 111, 110 >>
\* "-Xallow-non-tty"
OptAllowNonTty == << 45, 88, 97, 108, 108, 111, 119, 45, 110, 111, 110, 45, 116, 116, 121 >>
\* "-Xconerr"
OptConerr == << 45, 88, 99, 111, 110, 101, 114, 114 >>
\* "-Xplain"
OptPlain == << 45, 88, 112, 108, 97, 105, 110 >>
\* "-Xcolor"
OptColor == << 45, 88, 99, 111, 108, 111, 114 >>
\* "--"
DashDash == << 45, 45 >>
\* "-z", an option parseArguments does not know
OptUnknown == << 45, 122 >>
\* argv[0]: "w"
Program == << 119 >>

\* the command line of a session: the flags asked for, then the child's arguments
SessionArgv(conerr, allowNonTtys, showKeys, child) ==
    << Program >>
        \o (IF conerr THEN << OptConerr >> ELSE << >>)
        \o (IF allowNonTtys THEN << OptAllowNonTty >> ELSE << >>)
        \o (IF showKeys THEN << OptShowkey >> ELSE << >>)
        \o child

\* the arguments the command lines of SpecArgs are made of
ArgTokens ==
    { OptH, OptHelp, OptMouse, OptShowkey, OptVersion, OptAllowNonTty, OptConerr,
      DashDash, OptUnknown, ChildExecMarker, << CH >>, << >> }

\* the sequences of at most n arguments
RECURSIVE ArgSeqs(_)
ArgSeqs(n) ==
    IF n = 0 THEN { << >> }
    ELSE ArgSeqs(n - 1) \cup
         { Append(a, t) : a \in { b \in ArgSeqs(n - 1) : Len(b) = n - 1 }, t \in ArgTokens }

\* the codes CreateProcess fails with (GetLastError), and what FormatMessageW and
\* the trimming of errorMessageToString make of them: a text, or nothing
LastErrors == {2, 5, 1234}

errorMessageToString(err) ==
    IF err = 2 THEN "The system cannot find the file specified."
    ELSE IF err = 5 THEN "Access is denied."
    ELSE ""

\* sprintf(buf, "error %#x", err)
HexText(err) ==
    IF err = 2 THEN "error 0x2"
    ELSE IF err = 5 THEN "error 0x5"
    ELSE "error 0x4d2"

\* formatErrorMessage without the "error 0x.." text when there is no message
formatErrorMessage_NoFallback(err) ==
    LET buf == HexText(err)
        ret == errorMessageToString(err)
    IN  IF ret = "" THEN << >> ELSE << ret, " (", buf, ")" >>

\* formatErrorMessage(err), as the pieces it appends
formatErrorMessage(err) ==
    LET buf == HexText(err)
        ret == errorMessageToString(err)
    IN  IF ret = "" THEN << buf >> ELSE << ret, " (", buf, ")" >>

(***************************************************************************)
(* Terminals.  A stream (file descriptor 0, 1, 2) refers to a terminal     *)
(* (1, 2, 3) or to none (0: isatty fails).  A termios holds the flags the   *)
(* program reads or changes and one (TOSTOP) it never does.                *)
(***************************************************************************)
Streams == 0..2
Terms == {1, 2, 3}

Cooked ==
    [lflag |-> {"ECHO", "ICANON", "IEXTEN", "ISIG"},
     iflag |-> {"BRKINT", "ICRNL", "IXON"},
     csize |-> "CS8", parenb |-> FALSE, opost |-> TRUE, vmin |-> 4, vtime |-> 0]

Cooked7 ==
    [lflag |-> {"ECHO", "ICANON", "ISIG", "TOSTOP"},
     iflag |-> {"ICRNL", "INPCK", "ISTRIP"},
     csize |-> "CS7", parenb |-> TRUE, opost |-> TRUE, vmin |-> 4, vtime |-> 2]

TermiosPresets == {Cooked, Cooked7}

\* termios mode[i] of a SavedTermiosMode before tcgetattr has filled it
Uninit ==
    [lflag |-> {}, iflag |-> {}, csize |-> "uninit", parenb |-> FALSE,
     opost |-> FALSE, vmin |-> 0, vtime |-> 0]

\* the changes setRawTerminalMode makes to the termios of stdin
RawInput(buf) ==
    [buf EXCEPT !.lflag = @ \ {"ECHO", "ICANON", "IEXTEN", "ISIG"},
                !.iflag = @ \ {"BRKINT", "ICRNL", "INPCK", "ISTRIP", "IXON"},
                !.csize = "CS8", !.parenb = FALSE,
                !.vmin = 1, !.vtime = 0]

\* the changes setRawTerminalMode makes to the termios of stdout and stderr
RawOutput(buf) ==
    [buf EXCEPT !.csize = "CS8", !.parenb = FALSE, !.opost = FALSE]

\* struct SavedTermiosMode as setRawTerminalMode starts to fill it
NewSavedMode(setStdout, setStderr) ==
    [valid |-> [i \in Streams |-> IF i = 0 THEN TRUE
                                  ELSE IF i = 1 THEN setStdout ELSE setStderr],
     mode |-> [i \in Streams |-> Uninit]]

NoSavedMode ==
    [valid |-> [i \in Streams |-> FALSE], mode |-> [i \in Streams |-> Uninit]]

(***************************************************************************)
(* Window sizes: struct winsize.                                           *)
(***************************************************************************)
WinSize(col, row, xpixel, ypixel) ==
    [ws_row |-> row, ws_col |-> col, ws_xpixel |-> xpixel, ws_ypixel |-> ypixel]

\* winsize sz = { 0 }
ZeroSz == WinSize(0, 0, 0, 0)

\* sz.ws_col = 80; sz.ws_row = 25
DefaultSz == [ZeroSz EXCEPT !.ws_col = 80, !.ws_row = 25]

\* the sizes the terminal takes
WinSizes == { WinSize(80, 25, 0, 0), WinSize(120, 40, 0, 0), WinSize(80, 25, 640, 400) }

\* what an uninitialized winsize may hold after a failed ioctl
StackSizes == WinSizes \cup { WinSize(7, 3, 1, 1) }

\* memcmp(&sz, &sz2, sizeof(sz)) != 0
SizeDiffers(a, b) ==
    \/ a.ws_row # b.ws_row
    \/ a.ws_col # b.ws_col
    \/ a.ws_xpixel # b.ws_xpixel
    \/ a.ws_ypixel # b.ws_ypixel

\* the exit codes GetExitCodeProcess may report (259 is STILL_ACTIVE)
ChildCodes == {0, 3, 259}

Workers == {"input", "output", "error"}

\* what main owns and releases: wp by winpty_free, the others by CloseHandle
Resources == {"wp", "conin", "conout", "conerr", "childHandle"}

(***************************************************************************)
(* WakeupFd (WakeupFd.h): set() marks the wakeup pending, any number of    *)
(* times; reset() clears it; the readiness wait returns while it is        *)
(* pending.                                                                *)
(***************************************************************************)
WakeupSet(w) == TRUE
WakeupReset(w) == FALSE
WakeupReady(w) == w

VARIABLES
    pc,               \* where the process is
    exitCode,         \* the process's exit status once pc = "exited"
    diag,             \* the last diagnostic written to stderr
    diagArg,          \* the error text the spawn diagnostic ends with
    stdoutText,       \* the last text written to stdout
    \* the command line and parseArguments
    argv,             \* argv of main; argv[k + 1] here is argv[k] there
    argi,             \* argi in parseArguments
    mouseInput,       \* args.mouseInput
    testPlainOutput,  \* args.testPlainOutput
    testColorEscapes, \* args.testColorEscapes
    testConerr,       \* args.testConerr
    testAllowNonTtys, \* args.testAllowNonTtys
    doShowKeys,       \* doShowKeys in parseArguments
    childArgv,        \* args.childArgv
    \* command line
    childCmdLine,     \* childCmdLine in main
    cmdLineW,         \* the command line the child process is created with
    stubArgv,         \* what the --child-exec stub hands to execvp
    \* terminals
    fdTerm,           \* the terminal each stream refers to (0: not a tty)
    termAttr,         \* each terminal's termios
    attr0,            \* each terminal's termios when the process started
    mode,             \* the SavedTermiosMode (ret, then mode / saved)
    savedAtReturn,    \* the SavedTermiosMode setRawTerminalMode returned
    idx,              \* the loop index i of setRawTerminalMode / restoreTerminalMode
    rawCaller,        \* who called setRawTerminalMode: "main" or "showkey"
    touched,          \* per stream, the termios calls made on it
    \* window size and wakeup
    termSz,           \* the terminal's window size
    sz,               \* the cached size (sz in main)
    sz2,              \* the size the loop's probe read
    szBefore,         \* the cached size before the loop last compared it
    resizesLeft,      \* resizes the terminal may still make
    wakeupCreated,    \* g_mainWakeup != NULL
    handlerInstalled, \* the SIGWINCH handler is registered
    sigInFlight,      \* a SIGWINCH is generated and not yet delivered
    wakeup,           \* the main wakeup is pending
    setsSinceReset,   \* set() calls since the last reset()
    wakesSinceSet,    \* returns of the readiness wait since the last set()
    sigSeen,          \* a SIGWINCH has been delivered to the handler
    \* back end
    wp,               \* the winpty session: "none", "open", "freed"
    conin,            \* "none", "open", "closed"
    conout,
    conerr,
    childHandle,      \* "none", "open", "closed"
    released,         \* per owned resource, the calls that released it
    workers,          \* each I/O handler: "none", "running", "complete", "stopped"
    agentSize,        \* the size last given to the back end
    setSizeCalls,     \* winpty_set_size calls made
    queryOk,          \* GetExitCodeProcess: "notyet", "ok", "fail"
    childCode,        \* the code GetExitCodeProcess stored
    localExit         \* DWORD exitCode in main

outVars == << diagArg, stdoutText >>
argVars == << argv, argi, mouseInput, testPlainOutput, testColorEscapes, testConerr,
             testAllowNonTtys, doShowKeys, childArgv >>
codecVars == << childCmdLine, cmdLineW, stubArgv >>
termVars == << fdTerm, termAttr, attr0, mode, savedAtReturn, idx, rawCaller, touched >>
sizeVars == << termSz, sz, sz2, szBefore, resizesLeft >>
wakeVars == << wakeupCreated, handlerInstalled, sigInFlight, wakeup, setsSinceReset, wakesSinceSet, sigSeen >>
handleVars == << wp, conin, conout, conerr, childHandle, released >>
agentVars == << agentSize, setSizeCalls >>
exitVars == << queryOk, childCode, localExit >>

vars == << pc, exitCode, diag, outVars, argVars, codecVars, termVars, sizeVars, wakeVars,
           handleVars, workers, agentVars, exitVars >>

(***************************************************************************)
(* Initial states.                                                         *)
(***************************************************************************)
\* everything but the inputs of a run
InitRest ==
    /\ exitCode = 0
    /\ diag = "none"
    /\ diagArg = << >>
    /\ stdoutText = "none"
    /\ argi = 1
    /\ mouseInput = FALSE
    /\ testPlainOutput = FALSE
    /\ testColorEscapes = FALSE
    /\ testConerr = FALSE
    /\ testAllowNonTtys = FALSE
    /\ doShowKeys = FALSE
    /\ childArgv = << >>
    /\ wakeupCreated = FALSE
    /\ childCmdLine = << >>
    /\ cmdLineW = << >>
    /\ stubArgv = NoExec
    /\ attr0 = termAttr
    /\ mode = NoSavedMode
    /\ savedAtReturn = NoSavedMode
    /\ idx = 0
    /\ rawCaller = "none"
    /\ touched = [i \in Streams |-> {}]
    /\ sz = ZeroSz
    /\ sz2 = ZeroSz
    /\ szBefore = ZeroSz
    /\ handlerInstalled = FALSE
    /\ sigInFlight = FALSE
    /\ wakeup = FALSE
    /\ setsSinceReset = 0
    /\ wakesSinceSet = 0
    /\ sigSeen = FALSE
    /\ wp = "none"
    /\ conin = "none"
    /\ conout = "none"
    /\ conerr = "none"
    /\ childHandle = "none"
    /\ released = [r \in Resources |-> 0]
    /\ workers = [w \in Workers |-> "none"]
    /\ agentSize = << 0, 0 >>
    /\ setSizeCalls = 0
    /\ queryOk = "notyet"
    /\ childCode = 0
    /\ localExit = 0

\* a session on one terminal, or with some streams redirected
Init ==
    /\ pc = "start"
    /\ argv \in { SessionArgv(c, a, k, << << CH >>, << CH, SP, BS >> >>) :
                      c \in BOOLEAN, a \in BOOLEAN, k \in BOOLEAN }
    /\ fdTerm \in { [i \in Streams |-> 1],
                    [i \in Streams |-> IF i = 0 THEN 0 ELSE 1],
                    [i \in Streams |-> IF i = 2 THEN 0 ELSE 1] }
    /\ termAttr = [t \in Terms |-> Cooked]
    /\ termSz \in WinSizes
    /\ resizesLeft = MaxResizes
    /\ InitRest

\* the sessions of Init on a terminal of 80 x 25 at the start
InitFair ==
    /\ pc = "start"
    /\ argv \in { SessionArgv(c, a, k, << << CH >> >>) :
                      c \in BOOLEAN, a \in BOOLEAN, k \in BOOLEAN }
    /\ fdTerm \in { [i \in Streams |-> 1],
                    [i \in Streams |-> IF i = 0 THEN 0 ELSE 1] }
    /\ termAttr = [t \in Terms |-> Cooked]
    /\ termSz = WinSize(80, 25, 0, 0)
    /\ resizesLeft = MaxResizes
    /\ InitRest

\* every assignment of the streams to terminals, no resizes
InitTermios ==
    /\ pc = "start"
    /\ argv \in { SessionArgv(c, a, k, << << CH >> >>) :
                      c \in BOOLEAN, a \in BOOLEAN, k \in BOOLEAN }
    /\ fdTerm \in [Streams -> {0} \cup Terms]
    /\ termAttr \in [Terms -> TermiosPresets]
    /\ termSz = DefaultSz
    /\ resizesLeft = 0
    /\ InitRest

\* any command line of at most MaxArgs arguments, stdin a terminal or not
InitArgs ==
    /\ pc = "start"
    /\ argv \in { << Program >> \o a : a \in ArgSeqs(MaxArgs) }
    /\ fdTerm \in { [i \in Streams |-> 1],
                    [i \in Streams |-> IF i = 0 THEN 0 ELSE 1] }
    /\ termAttr = [t \in Terms |-> Cooked]
    /\ termSz = DefaultSz
    /\ resizesLeft = 0
    /\ InitRest

\* the codec on its own: the argument vector is collected first
InitCodec ==
    /\ pc = "collect"
    /\ argv = << >>
    /\ fdTerm = [i \in Streams |-> 1]
    /\ termAttr = [t \in Terms |-> Cooked]
    /\ termSz = DefaultSz
    /\ resizesLeft = 0
    /\ InitRest

(***************************************************************************)
(* The program.                                                            *)
(***************************************************************************)
\* exit(code)
Exit(code) == pc' = "exited" /\ exitCode' = code

Running == pc # "exited"

\* MainEntry with the wakeup created before --child-exec is looked for
MainEntry_WakeupFirst ==
    /\ pc = "start"
    /\ wakeupCreated' = TRUE
    /\ LET ce == ChildExecArgv(argv)
       IN  IF ce.exec
           THEN /\ stubArgv' = ce
                /\ \E ok \in BOOLEAN :
                       IF ok
                       THEN pc' = "execed" /\ UNCHANGED << exitCode, diag >>
                       ELSE diag' = "error: exec failed" /\ Exit(1)
           ELSE /\ pc' = "parse"
                /\ UNCHANGED << stubArgv, exitCode, diag >>
    /\ UNCHANGED << outVars, argVars, childCmdLine, cmdLineW, termVars, sizeVars,
                    handlerInstalled, sigInFlight, wakeup, setsSinceReset,
                    wakesSinceSet, sigSeen, handleVars, workers, agentVars, exitVars >>

\* main's first lines: with --child-exec as argv[1] and argc >= 3, execvp of
\* argv[2..], which replaces the process image or fails (perror, exit(1));
\* otherwise g_mainWakeup = new WakeupFd() and parseArguments starts
MainEntry ==
    /\ pc = "start"
    /\ LET ce == ChildExecArgv(argv)
       IN  IF ce.exec
           THEN /\ stubArgv' = ce
                /\ \E ok \in BOOLEAN :
                       IF ok
                       THEN pc' = "execed" /\ UNCHANGED << exitCode, diag >>
                       ELSE diag' = "error: exec failed" /\ Exit(1)
                /\ UNCHANGED wakeupCreated
           ELSE /\ wakeupCreated' = TRUE
                /\ pc' = "parse"
                /\ UNCHANGED << stubArgv, exitCode, diag >>
    /\ UNCHANGED << outVars, argVars, childCmdLine, cmdLineW, termVars, sizeVars,
                    handlerInstalled, sigInFlight, wakeup, setsSinceReset,
                    wakesSinceSet, sigSeen, handleVars, workers, agentVars, exitVars >>

\* arg.size() >= 1 && arg[0] == '-'
IsOption(arg) == Len(arg) >= 1 /\ arg[1] = DASH

\* the options parseArguments knows and goes on after
FlagOptions ==
    { OptMouse, OptShowkey, OptAllowNonTty, OptConerr, OptPlain, OptColor }

\* ParseArg going on with the options after "--"
ParseArg_NoDashDash ==
    /\ pc = "parse"
    /\ IF argi >= Len(argv)
       THEN /\ pc' = "parse_rest"
            /\ UNCHANGED << exitCode, diag, stdoutText, argi, mouseInput,
                            testPlainOutput, testColorEscapes, testConerr,
                            testAllowNonTtys, doShowKeys, childArgv >>
       ELSE LET arg == argv[argi + 1]
                opt == IsOption(arg)
            IN  /\ argi' = argi + 1
                /\ mouseInput' = (mouseInput \/ (opt /\ arg = OptMouse))
                /\ doShowKeys' = (doShowKeys \/ (opt /\ arg = OptShowkey))
                /\ testAllowNonTtys' = (testAllowNonTtys \/ (opt /\ arg = OptAllowNonTty))
                /\ testConerr' = (testConerr \/ (opt /\ arg = OptConerr))
                /\ testPlainOutput' = (testPlainOutput \/ (opt /\ arg = OptPlain))
                /\ testColorEscapes' = (testColorEscapes \/ (opt /\ arg = OptColor))
                /\ childArgv' = IF opt THEN childArgv ELSE Append(childArgv, arg)
                /\ IF ~opt
                   THEN pc' = "parse_rest" /\ UNCHANGED << exitCode, diag, stdoutText >>
                   ELSE IF arg \in {OptH, OptHelp}
                   THEN stdoutText' = "usage" /\ Exit(0) /\ UNCHANGED diag
                   ELSE IF arg = OptVersion
                   THEN stdoutText' = "version" /\ Exit(0) /\ UNCHANGED diag
                   ELSE IF arg \in FlagOptions \cup {DashDash}
                   THEN pc' = "parse" /\ UNCHANGED << exitCode, diag, stdoutText >>
                   ELSE /\ diag' = "Error: unrecognized option"
                        /\ Exit(1)
                        /\ UNCHANGED stdoutText
    /\ UNCHANGED << diagArg, argv, codecVars, termVars, sizeVars, wakeVars, handleVars,
                    workers, agentVars, exitVars >>

\* one iteration of while (argi < argc) in parseArguments, or its end
ParseArg ==
    /\ pc = "parse"
    /\ IF argi >= Len(argv)
       THEN /\ pc' = "parse_rest"
            /\ UNCHANGED << exitCode, diag, stdoutText, argi, mouseInput,
                            testPlainOutput, testColorEscapes, testConerr,
                            testAllowNonTtys, doShowKeys, childArgv >>
       ELSE LET arg == argv[argi + 1]
                opt == IsOption(arg)
            IN  /\ argi' = argi + 1
                /\ mouseInput' = (mouseInput \/ (opt /\ arg = OptMouse))
                /\ doShowKeys' = (doShowKeys \/ (opt /\ arg = OptShowkey))
                /\ testAllowNonTtys' = (testAllowNonTtys \/ (opt /\ arg = OptAllowNonTty))
                /\ testConerr' = (testConerr \/ (opt /\ arg = OptConerr))
                /\ testPlainOutput' = (testPlainOutput \/ (opt /\ arg = OptPlain))
                /\ testColorEscapes' = (testColorEscapes \/ (opt /\ arg = OptColor))
                /\ childArgv' = IF opt THEN childArgv ELSE Append(childArgv, arg)
                /\ IF ~opt \/ arg = DashDash
                   THEN pc' = "parse_rest" /\ UNCHANGED << exitCode, diag, stdoutText >>
                   ELSE IF arg \in {OptH, OptHelp}
                   THEN stdoutText' = "usage" /\ Exit(0) /\ UNCHANGED diag
                   ELSE IF arg = OptVersion
                   THEN stdoutText' = "version" /\ Exit(0) /\ UNCHANGED diag
                   ELSE IF arg \in FlagOptions
                   THEN pc' = "parse" /\ UNCHANGED << exitCode, diag, stdoutText >>
                   ELSE /\ diag' = "Error: unrecognized option"
                        /\ Exit(1)
                        /\ UNCHANGED stdoutText
    /\ UNCHANGED << diagArg, argv, codecVars, termVars, sizeVars, wakeVars, handleVars,
                    workers, agentVars, exitVars >>

\* for (; argi < argc; ++argi) out.childArgv.push_back(argv[argi])
ParseRest ==
    /\ pc = "parse_rest"
    /\ childArgv' = childArgv \o SubSeq(argv, argi + 1, Len(argv))
    /\ argi' = IF argi < Len(argv) THEN Len(argv) ELSE argi
    /\ pc' = "main"
    /\ UNCHANGED << exitCode, diag, outVars, argv, mouseInput, testPlainOutput,
                    testColorEscapes, testConerr, testAllowNonTtys, doShowKeys,
                    codecVars, termVars, sizeVars, wakeVars, handleVars, workers,
                    agentVars, exitVars >>

\* the end of parseArguments: with --showkey, debugShowKey and exit(0); with no
\* child program, usage(program, 1); otherwise main goes on to set the session up
MainStart ==
    /\ pc = "main"
    /\ IF doShowKeys
       THEN /\ stdoutText' = "Press any keys -- Ctrl-D exits"
            /\ pc' = "raw_enter" /\ rawCaller' = "showkey"
            /\ UNCHANGED exitCode
       ELSE IF Len(childArgv) = 0
       THEN /\ stdoutText' = "usage"
            /\ Exit(1)
            /\ UNCHANGED rawCaller
       ELSE /\ pc' = "probe0"
            /\ UNCHANGED << exitCode, stdoutText, rawCaller >>
    /\ UNCHANGED << diag, diagArg, argVars, codecVars, fdTerm, termAttr, attr0, mode,
                    savedAtReturn, idx, touched, sizeVars, wakeVars, handleVars,
                    workers, agentVars, exitVars >>

\* sz = {80, 25}; ioctl(STDIN_FILENO, TIOCGWINSZ, &sz) fills sz when stdin is a
\* terminal and leaves it alone when it fails
InitialProbe ==
    /\ pc = "probe0"
    /\ sz' = IF fdTerm[0] # 0 THEN termSz ELSE DefaultSz
    /\ pc' = "open"
    /\ UNCHANGED << exitCode, diag, outVars, argVars, codecVars, termVars, termSz, sz2,
                    szBefore, resizesLeft, wakeVars, handleVars, workers, agentVars,
                    exitVars >>

\* WinptyOpen without winpty_config_set_initial_size: the back end's own 80 x 25
WinptyOpen_NoInitialSize ==
    /\ pc = "open"
    /\ \E ok \in BOOLEAN :
           IF ok
           THEN /\ wp' = "open"
                /\ agentSize' = << 80, 25 >>
                /\ pc' = "channels"
                /\ UNCHANGED << exitCode, diag >>
           ELSE /\ diag' = "Error creating winpty"
                /\ Exit(1)
                /\ UNCHANGED << wp, agentSize >>
    /\ UNCHANGED << outVars, argVars, codecVars, termVars, sizeVars, wakeVars, conin,
                    conout, conerr, childHandle, released, workers, setSizeCalls, exitVars >>

\* winpty_config_set_initial_size, winpty_open
WinptyOpen ==
    /\ pc = "open"
    /\ \E ok \in BOOLEAN :
           IF ok
           THEN /\ wp' = "open"
                /\ agentSize' = << sz.ws_col, sz.ws_row >>
                /\ pc' = "channels"
                /\ UNCHANGED << exitCode, diag >>
           ELSE /\ diag' = "Error creating winpty"
                /\ Exit(1)
                /\ UNCHANGED << wp, agentSize >>
    /\ UNCHANGED << outVars, argVars, codecVars, termVars, sizeVars, wakeVars, conin, conout,
                    conerr, childHandle, released, workers, setSizeCalls, exitVars >>

\* CreateFileW of the channel names
OpenChannels ==
    /\ pc = "channels"
    /\ conin' = "open"
    /\ conout' = "open"
    /\ conerr' = IF testConerr THEN "open" ELSE conerr
    /\ pc' = "spawn"
    /\ UNCHANGED << exitCode, diag, outVars, argVars, codecVars, termVars, sizeVars, wakeVars,
                    wp, childHandle, released, workers, agentVars, exitVars >>

\* Spawn going on to the session after a failed winpty_spawn
Spawn_NoExitOnFailure ==
    /\ pc = "spawn"
    /\ childCmdLine' = argvToCommandLine(childArgv)
    /\ cmdLineW' = BuildCmdLineW(SelfPath, childCmdLine')
    /\ \/ /\ childHandle' = "open"
          /\ UNCHANGED << diag, diagArg >>
       \/ \E lastError \in LastErrors :
              /\ diag' = "Could not start"
              /\ diagArg' = formatErrorMessage(lastError)
              /\ UNCHANGED childHandle
       \/ /\ diag' = "Could not start: internal error"
          /\ diagArg' = << "winpty_error_msg" >>
          /\ UNCHANGED childHandle
    /\ pc' = "sigreg"
    /\ UNCHANGED << exitCode, stdoutText, argVars, stubArgv, termVars, sizeVars,
                    wakeVars, wp, conin, conout, conerr, released, workers, agentVars, exitVars >>

\* the command line is built and winpty_spawn called; on failure the
\* diagnostic ends with formatErrorMessage(lastError) when the error code is
\* WINPTY_ERROR_SPAWN_CREATE_PROCESS_FAILED and with winpty_error_msg otherwise
Spawn ==
    /\ pc = "spawn"
    /\ childCmdLine' = argvToCommandLine(childArgv)
    /\ cmdLineW' = BuildCmdLineW(SelfPath, childCmdLine')
    /\ \/ /\ childHandle' = "open"
          /\ pc' = "sigreg"
          /\ UNCHANGED << exitCode, diag, diagArg >>
       \/ \E lastError \in LastErrors :
              /\ diag' = "Could not start"
              /\ diagArg' = formatErrorMessage(lastError)
              /\ Exit(1)
              /\ UNCHANGED childHandle
       \/ /\ diag' = "Could not start: internal error"
          /\ diagArg' = << "winpty_error_msg" >>
          /\ Exit(1)
          /\ UNCHANGED childHandle
    /\ UNCHANGED << stdoutText, argVars, stubArgv, termVars, sizeVars, wakeVars, wp,
                    conin, conout, conerr, released, workers, agentVars, exitVars >>

\* sigaction(SIGWINCH, ...), then setRawTerminalMode is called
RegisterResizeSignalHandler ==
    /\ pc = "sigreg"
    /\ handlerInstalled' = TRUE
    /\ rawCaller' = "main"
    /\ pc' = "raw_enter"
    /\ UNCHANGED << exitCode, diag, outVars, argVars, codecVars, fdTerm, termAttr, attr0, mode,
                    savedAtReturn, idx, touched, sizeVars, wakeupCreated, sigInFlight, wakeup,
                    setsSinceReset, wakesSinceSet, sigSeen, handleVars, workers,
                    agentVars, exitVars >>

(***************************************************************************)
(* setRawTerminalMode(allowNonTtys, setStdout, setStderr): main asks for   *)
(* stdout and, with -Xconerr, stderr; debugShowKey for neither.            *)
(***************************************************************************)
SetStdout == rawCaller = "main"
SetStderr == rawCaller = "main" /\ testConerr

\* ret.valid[0] = true; ret.valid[1] = setStdout; ret.valid[2] = setStderr
RawEnter ==
    /\ pc = "raw_enter"
    /\ mode' = NewSavedMode(SetStdout, SetStderr)
    /\ idx' = 0
    /\ pc' = "raw_scan"
    /\ UNCHANGED << exitCode, diag, outVars, argVars, codecVars, fdTerm, termAttr, attr0,
                    savedAtReturn, rawCaller, touched, sizeVars, wakeVars,
                    handleVars, workers, agentVars, exitVars >>

\* one iteration of the first loop: isatty(i), tcgetattr(i, &ret.mode[i])
RawScan ==
    /\ pc = "raw_scan"
    /\ LET i == idx
           next == IF i = 2 THEN "raw_stdin" ELSE "raw_scan"
       IN  IF ~mode.valid[i]
           THEN /\ idx' = i + 1 /\ pc' = next
                /\ UNCHANGED << mode, touched, exitCode, diag >>
           ELSE IF fdTerm[i] = 0
           THEN /\ mode' = [mode EXCEPT !.valid[i] = FALSE]
                /\ UNCHANGED touched
                /\ IF ~testAllowNonTtys
                   THEN diag' = "is not a tty" /\ Exit(1) /\ UNCHANGED idx
                   ELSE idx' = i + 1 /\ pc' = next /\ UNCHANGED << exitCode, diag >>
           ELSE \E ok \in BOOLEAN :
                /\ touched' = [touched EXCEPT ![i] = @ \cup {"get"}]
                /\ IF ok
                   THEN /\ mode' = [mode EXCEPT !.valid[i] = TRUE,
                                                !.mode[i] = termAttr[fdTerm[i]]]
                        /\ idx' = i + 1 /\ pc' = next
                        /\ UNCHANGED << exitCode, diag >>
                   ELSE /\ mode' = [mode EXCEPT !.valid[i] = TRUE]
                        /\ diag' = "tcgetattr failed" /\ Exit(1) /\ UNCHANGED idx
    /\ UNCHANGED << outVars, argVars, codecVars, fdTerm, termAttr, attr0, savedAtReturn,
                    rawCaller, sizeVars, wakeVars, handleVars, workers, agentVars,
                    exitVars >>

\* RawStdin with ret.mode[0] as the buffer the raw mode is built in
RawStdin_ClobberSaved ==
    /\ pc = "raw_stdin"
    /\ IF ~mode.valid[0]
       THEN /\ pc' = "raw_out" /\ idx' = 1
            /\ UNCHANGED << termAttr, touched, exitCode, diag, mode >>
       ELSE /\ touched' = [touched EXCEPT ![0] = @ \cup {"get", "set"}]
            /\ termAttr' = [termAttr EXCEPT ![fdTerm[0]] = RawInput(@)]
            /\ mode' = [mode EXCEPT !.mode[0] = RawInput(termAttr[fdTerm[0]])]
            /\ pc' = "raw_out" /\ idx' = 1
            /\ UNCHANGED << exitCode, diag >>
    /\ UNCHANGED << outVars, argVars, codecVars, fdTerm, attr0, savedAtReturn, rawCaller,
                    sizeVars, wakeVars, handleVars, workers, agentVars, exitVars >>

\* if (ret.valid[STDIN_FILENO]) { tcgetattr; clear the flags; tcsetattr }
RawStdin ==
    /\ pc = "raw_stdin"
    /\ IF ~mode.valid[0]
       THEN /\ pc' = "raw_out" /\ idx' = 1
            /\ UNCHANGED << termAttr, touched, exitCode, diag >>
       ELSE \E r \in {"ok", "getfail", "setfail"} :
            IF r = "getfail"
            THEN /\ touched' = [touched EXCEPT ![0] = @ \cup {"get"}]
                 /\ diag' = "tcgetattr failed" /\ Exit(1)
                 /\ UNCHANGED << termAttr, idx >>
            ELSE IF r = "setfail"
            THEN /\ touched' = [touched EXCEPT ![0] = @ \cup {"get"}]
                 /\ diag' = "tcsetattr failed" /\ Exit(1)
                 /\ UNCHANGED << termAttr, idx >>
            ELSE /\ touched' = [touched EXCEPT ![0] = @ \cup {"get", "set"}]
                 /\ termAttr' = [termAttr EXCEPT ![fdTerm[0]] = RawInput(@)]
                 /\ pc' = "raw_out" /\ idx' = 1
                 /\ UNCHANGED << exitCode, diag >>
    /\ UNCHANGED << outVars, argVars, codecVars, fdTerm, attr0, mode, savedAtReturn, rawCaller,
                    sizeVars, wakeVars, handleVars, workers, agentVars, exitVars >>

\* where setRawTerminalMode returns to
RawReturnPc == IF rawCaller = "main" THEN "handlers" ELSE "showkey_read"

\* one iteration of the loop over stdout and stderr; after the last, return ret
RawOut ==
    /\ pc = "raw_out"
    /\ LET i == idx
           next == IF i = 2 THEN RawReturnPc ELSE "raw_out"
           ret == IF i = 2 THEN mode ELSE savedAtReturn
       IN  IF ~mode.valid[i]
           THEN /\ idx' = i + 1 /\ pc' = next /\ savedAtReturn' = ret
                /\ UNCHANGED << termAttr, touched, exitCode, diag >>
           ELSE \E r \in {"ok", "getfail", "setfail"} :
                IF r = "getfail"
                THEN /\ touched' = [touched EXCEPT ![i] = @ \cup {"get"}]
                     /\ diag' = "tcgetattr failed" /\ Exit(1)
                     /\ UNCHANGED << termAttr, idx, savedAtReturn >>
                ELSE IF r = "setfail"
                THEN /\ touched' = [touched EXCEPT ![i] = @ \cup {"get"}]
                     /\ diag' = "tcsetattr failed" /\ Exit(1)
                     /\ UNCHANGED << termAttr, idx, savedAtReturn >>
                ELSE /\ touched' = [touched EXCEPT ![i] = @ \cup {"get", "set"}]
                     /\ termAttr' = [termAttr EXCEPT ![fdTerm[i]] = RawOutput(@)]
                     /\ idx' = i + 1 /\ pc' = next /\ savedAtReturn' = ret
                     /\ UNCHANGED << exitCode, diag >>
    /\ UNCHANGED << outVars, argVars, codecVars, fdTerm, attr0, mode, rawCaller, sizeVars,
                    wakeVars, handleVars, workers, agentVars, exitVars >>

(***************************************************************************)
(* restoreTerminalMode(original)                                           *)
(***************************************************************************)
RestoreEnter ==
    /\ pc = "restore_enter"
    /\ idx' = 0
    /\ pc' = "restore"
    /\ UNCHANGED << exitCode, diag, outVars, argVars, codecVars, fdTerm, termAttr, attr0, mode,
                    savedAtReturn, rawCaller, touched, sizeVars, wakeVars, handleVars,
                    workers, agentVars, exitVars >>

\* RestoreStep without the test of original.valid[i]
RestoreStep_IgnoreValid ==
    /\ pc = "restore"
    /\ LET i == idx
       IN  /\ touched' = [touched EXCEPT ![i] = @ \cup {"restore"}]
           /\ termAttr' = IF fdTerm[i] # 0
                          THEN [termAttr EXCEPT ![fdTerm[i]] = mode.mode[i]]
                          ELSE termAttr
           /\ idx' = i + 1
           /\ pc' = IF i = 2 THEN "restored" ELSE "restore"
    /\ UNCHANGED << exitCode, diag, outVars, argVars, codecVars, fdTerm, attr0, mode,
                    savedAtReturn, rawCaller, sizeVars, wakeVars, handleVars, workers,
                    agentVars, exitVars >>

\* one iteration: tcsetattr(i, TCSAFLUSH, &original.mode[i]) when valid[i]
RestoreStep ==
    /\ pc = "restore"
    /\ LET i == idx
           next == IF i = 2 THEN "restored" ELSE "restore"
       IN  IF ~mode.valid[i]
           THEN /\ idx' = i + 1 /\ pc' = next
                /\ UNCHANGED << termAttr, touched, exitCode, diag >>
           ELSE \E ok \in BOOLEAN :
                /\ touched' = [touched EXCEPT ![i] = @ \cup {"restore"}]
                /\ IF ok
                   THEN /\ termAttr' = [termAttr EXCEPT ![fdTerm[i]] = mode.mode[i]]
                        /\ idx' = i + 1 /\ pc' = next
                        /\ UNCHANGED << exitCode, diag >>
                   ELSE /\ diag' = "error restoring terminal mode" /\ Exit(1)
                        /\ UNCHANGED << termAttr, idx >>
    /\ UNCHANGED << outVars, argVars, codecVars, fdTerm, attr0, mode, savedAtReturn, rawCaller,
                    sizeVars, wakeVars, handleVars, workers, agentVars, exitVars >>

\* restoreTerminalMode returns: to main's exit-code query, or to
\* parseArguments' exit(0) after debugShowKey
RestoreReturn ==
    /\ pc = "restored"
    /\ IF rawCaller = "main"
       THEN pc' = "getexit" /\ UNCHANGED exitCode
       ELSE Exit(0)
    /\ UNCHANGED << diag, outVars, argVars, codecVars, termVars, sizeVars, wakeVars, handleVars,
                    workers, agentVars, exitVars >>

\* debugShowKey's loop: read(STDIN_FILENO, ...) until end of input or Ctrl-D
ShowKeyRead ==
    /\ pc = "showkey_read"
    /\ \E stop \in BOOLEAN : pc' = IF stop THEN "restore_enter" ELSE "showkey_read"
    /\ UNCHANGED << exitCode, diag, outVars, argVars, codecVars, termVars, sizeVars, wakeVars,
                    handleVars, workers, agentVars, exitVars >>

(***************************************************************************)
(* The I/O handlers and the main loop.                                     *)
(***************************************************************************)
\* InputHandler inputHandler(...); OutputHandler outputHandler(...);
\* errorHandler = new OutputHandler(...) with -Xconerr
CreateHandlers ==
    /\ pc = "handlers"
    /\ workers' = [w \in Workers |->
                       IF w = "error" /\ ~testConerr THEN "none" ELSE "running"]
    /\ pc' = "select"
    /\ UNCHANGED << exitCode, diag, outVars, argVars, codecVars, termVars, sizeVars, wakeVars,
                    handleVars, agentVars, exitVars >>

\* selectWrapper("main thread", ...) returns: the wakeup is readable
Select ==
    /\ pc = "select"
    /\ WakeupReady(wakeup)
    /\ wakesSinceSet' = wakesSinceSet + 1
    /\ pc' = "reset"
    /\ UNCHANGED << exitCode, diag, outVars, argVars, codecVars, termVars, sizeVars,
                    wakeupCreated, handlerInstalled, sigInFlight, wakeup, setsSinceReset, sigSeen,
                    handleVars, workers, agentVars, exitVars >>

\* Reset without the call of reset()
Reset_Skipped ==
    /\ pc = "reset"
    /\ pc' = "probe"
    /\ UNCHANGED << exitCode, diag, outVars, argVars, codecVars, termVars, sizeVars, wakeVars,
                    handleVars, workers, agentVars, exitVars >>

\* Reset with the completion flags read before the probe
Reset_CheckFirst ==
    /\ pc = "reset"
    /\ wakeup' = WakeupReset(wakeup)
    /\ setsSinceReset' = 0
    /\ pc' = IF \E w \in {"input", "output"} : workers[w] = "complete"
             THEN "free" ELSE "probe"
    /\ UNCHANGED << exitCode, diag, outVars, argVars, codecVars, termVars, sizeVars,
                    wakeupCreated, handlerInstalled, sigInFlight, wakesSinceSet, sigSeen,
                    handleVars, workers, agentVars, exitVars >>

\* mainWakeup().reset()
Reset ==
    /\ pc = "reset"
    /\ wakeup' = WakeupReset(wakeup)
    /\ setsSinceReset' = 0
    /\ pc' = "probe"
    /\ UNCHANGED << exitCode, diag, outVars, argVars, codecVars, termVars, sizeVars,
                    wakeupCreated, handlerInstalled, sigInFlight, wakesSinceSet, sigSeen, handleVars,
                    workers, agentVars, exitVars >>

\* winsize sz2; ioctl(STDIN_FILENO, TIOCGWINSZ, &sz2): the terminal's size, or
\* whatever the uninitialized sz2 holds when stdin is no terminal
Probe ==
    /\ pc = "probe"
    /\ IF fdTerm[0] # 0
       THEN sz2' = termSz
       ELSE sz2' \in StackSizes
    /\ pc' = "compare"
    /\ UNCHANGED << exitCode, diag, outVars, argVars, codecVars, termVars, termSz, sz,
                    szBefore, resizesLeft, wakeVars, handleVars, workers, agentVars,
                    exitVars >>

\* Compare looking at the columns and rows only
Compare_ColsRowsOnly ==
    /\ pc = "compare"
    /\ IF sz.ws_col # sz2.ws_col \/ sz.ws_row # sz2.ws_row
       THEN /\ sz' = sz2
            /\ agentSize' = << sz2.ws_col, sz2.ws_row >>
            /\ setSizeCalls' = setSizeCalls + 1
       ELSE UNCHANGED << sz, agentSize, setSizeCalls >>
    /\ sz2' = ZeroSz
    /\ szBefore' = sz
    /\ pc' = "check"
    /\ UNCHANGED << exitCode, diag, outVars, argVars, codecVars, termVars, termSz, resizesLeft,
                    wakeVars, handleVars, workers, exitVars >>

\* Compare with the wakeup reset after the probe instead of before it
Compare_ResetLate ==
    /\ pc = "compare"
    /\ IF SizeDiffers(sz, sz2)
       THEN /\ sz' = sz2
            /\ agentSize' = << sz2.ws_col, sz2.ws_row >>
            /\ setSizeCalls' = setSizeCalls + 1
       ELSE UNCHANGED << sz, agentSize, setSizeCalls >>
    /\ sz2' = ZeroSz
    /\ szBefore' = sz
    /\ wakeup' = WakeupReset(wakeup)
    /\ setsSinceReset' = 0
    /\ pc' = "check"
    /\ UNCHANGED << exitCode, diag, outVars, argVars, codecVars, termVars, termSz, resizesLeft,
                    wakeupCreated, handlerInstalled, sigInFlight, wakesSinceSet, sigSeen, handleVars,
                    workers, exitVars >>

\* if (memcmp(&sz, &sz2, sizeof(sz)) != 0) { sz = sz2; winpty_set_size(...) }
Compare ==
    /\ pc = "compare"
    /\ IF SizeDiffers(sz, sz2)
       THEN /\ sz' = sz2
            /\ agentSize' = << sz2.ws_col, sz2.ws_row >>
            /\ setSizeCalls' = setSizeCalls + 1
       ELSE UNCHANGED << sz, agentSize, setSizeCalls >>
    /\ sz2' = ZeroSz
    /\ szBefore' = sz
    /\ pc' = "check"
    /\ UNCHANGED << exitCode, diag, outVars, argVars, codecVars, termVars, termSz, resizesLeft,
                    wakeVars, handleVars, workers, exitVars >>

\* inputHandler.isComplete() || outputHandler.isComplete() ||
\* (errorHandler != NULL && errorHandler->isComplete())
AnyComplete ==
    \/ workers["input"] = "complete"
    \/ workers["output"] = "complete"
    \/ (testConerr /\ workers["error"] = "complete")

\* CheckComplete asking the input handler only
CheckComplete_InputOnly ==
    /\ pc = "check"
    /\ pc' = IF workers["input"] = "complete" THEN "free" ELSE "select"
    /\ UNCHANGED << exitCode, diag, outVars, argVars, codecVars, termVars, sizeVars,
                    wakeVars, handleVars, workers, agentVars, exitVars >>

CheckComplete ==
    /\ pc = "check"
    /\ pc' = IF AnyComplete THEN "free" ELSE "select"
    /\ UNCHANGED << exitCode, diag, outVars, argVars, codecVars, termVars, sizeVars, wakeVars,
                    handleVars, workers, agentVars, exitVars >>

(***************************************************************************)
(* Shutdown.                                                               *)
(***************************************************************************)
\* winpty_free(wp)
WinptyFree ==
    /\ pc = "free"
    /\ wp' = "freed"
    /\ released' = [released EXCEPT !["wp"] = @ + 1]
    /\ pc' = "in_shutdown"
    /\ UNCHANGED << exitCode, diag, outVars, argVars, codecVars, termVars, sizeVars, wakeVars,
                    conin, conout, conerr, childHandle, workers, agentVars, exitVars >>

\* InputShutdown without the call of shutdown
InputShutdown_Skipped ==
    /\ pc = "in_shutdown"
    /\ pc' = "out_shutdown"
    /\ UNCHANGED << exitCode, diag, outVars, argVars, codecVars, termVars, sizeVars, wakeVars,
                    handleVars, workers, agentVars, exitVars >>

\* inputHandler.shutdown()
InputShutdown ==
    /\ pc = "in_shutdown"
    /\ workers' = [workers EXCEPT !["input"] = "stopped"]
    /\ pc' = "out_shutdown"
    /\ UNCHANGED << exitCode, diag, outVars, argVars, codecVars, termVars, sizeVars, wakeVars,
                    handleVars, agentVars, exitVars >>

\* outputHandler.shutdown()
OutputShutdown ==
    /\ pc = "out_shutdown"
    /\ workers' = [workers EXCEPT !["output"] = "stopped"]
    /\ pc' = "close_conin"
    /\ UNCHANGED << exitCode, diag, outVars, argVars, codecVars, termVars, sizeVars, wakeVars,
                    handleVars, agentVars, exitVars >>

\* CloseHandle(conin)
CloseConin ==
    /\ pc = "close_conin"
    /\ conin' = "closed"
    /\ released' = [released EXCEPT !["conin"] = @ + 1]
    /\ pc' = "close_conout"
    /\ UNCHANGED << exitCode, diag, outVars, argVars, codecVars, termVars, sizeVars, wakeVars,
                    wp, conout, conerr, childHandle, workers, agentVars, exitVars >>

\* CloseHandle(conout); if (errorHandler != NULL)
CloseConout ==
    /\ pc = "close_conout"
    /\ conout' = "closed"
    /\ released' = [released EXCEPT !["conout"] = @ + 1]
    /\ pc' = IF testConerr THEN "err_shutdown" ELSE "restore_enter"
    /\ UNCHANGED << exitCode, diag, outVars, argVars, codecVars, termVars, sizeVars, wakeVars,
                    wp, conin, conerr, childHandle, workers, agentVars, exitVars >>

\* ErrorShutdown without the call of shutdown
ErrorShutdown_Skipped ==
    /\ pc = "err_shutdown"
    /\ pc' = "close_conerr"
    /\ UNCHANGED << exitCode, diag, outVars, argVars, codecVars, termVars, sizeVars, wakeVars,
                    handleVars, workers, agentVars, exitVars >>

\* errorHandler->shutdown(); delete errorHandler
ErrorShutdown ==
    /\ pc = "err_shutdown"
    /\ workers' = [workers EXCEPT !["error"] = "stopped"]
    /\ pc' = "close_conerr"
    /\ UNCHANGED << exitCode, diag, outVars, argVars, codecVars, termVars, sizeVars, wakeVars,
                    handleVars, agentVars, exitVars >>

\* CloseConerr closing conout a second time
CloseConerr_ClosesConout ==
    /\ pc = "close_conerr"
    /\ conout' = "closed"
    /\ released' = [released EXCEPT !["conout"] = @ + 1]
    /\ pc' = "restore_enter"
    /\ UNCHANGED << exitCode, diag, outVars, argVars, codecVars, termVars, sizeVars, wakeVars,
                    wp, conin, conerr, childHandle, workers, agentVars, exitVars >>

\* CloseHandle(conerr)
CloseConerr ==
    /\ pc = "close_conerr"
    /\ conerr' = "closed"
    /\ released' = [released EXCEPT !["conerr"] = @ + 1]
    /\ pc' = "restore_enter"
    /\ UNCHANGED << exitCode, diag, outVars, argVars, codecVars, termVars, sizeVars, wakeVars,
                    wp, conin, conout, childHandle, workers, agentVars, exitVars >>

\* GetExitCode without the substitution of 1 when the query fails
GetExitCode_NoFallback ==
    /\ pc = "getexit"
    /\ \/ \E c \in ChildCodes :
              /\ queryOk' = "ok"
              /\ childCode' = c
              /\ localExit' = c
       \/ /\ queryOk' = "fail"
          /\ localExit' = 0
          /\ UNCHANGED childCode
    /\ pc' = "close_child"
    /\ UNCHANGED << exitCode, diag, outVars, argVars, codecVars, termVars, sizeVars, wakeVars,
                    handleVars, workers, agentVars >>

\* DWORD exitCode = 0; if (!GetExitCodeProcess(childHandle, &exitCode)) exitCode = 1
GetExitCode ==
    /\ pc = "getexit"
    /\ \/ \E c \in ChildCodes :
              /\ queryOk' = "ok"
              /\ childCode' = c
              /\ localExit' = c
       \/ /\ queryOk' = "fail"
          /\ localExit' = 1
          /\ UNCHANGED childCode
    /\ pc' = "close_child"
    /\ UNCHANGED << exitCode, diag, outVars, argVars, codecVars, termVars, sizeVars, wakeVars,
                    handleVars, workers, agentVars >>

\* CloseHandle(childHandle); return exitCode
CloseChildAndReturn ==
    /\ pc = "close_child"
    /\ childHandle' = "closed"
    /\ released' = [released EXCEPT !["childHandle"] = @ + 1]
    /\ Exit(localExit)
    /\ UNCHANGED << diag, outVars, argVars, codecVars, termVars, sizeVars, wakeVars, wp, conin,
                    conout, conerr, workers, agentVars, exitVars >>

(***************************************************************************)
(* The environment: the terminal is resized, SIGWINCH is delivered, an I/O *)
(* handler's thread ends.                                                  *)
(***************************************************************************)
\* the terminal takes another size and the kernel generates SIGWINCH, which is
\* discarded unless the handler is registered
TerminalResize ==
    /\ Running
    /\ pc # "collect"
    /\ resizesLeft > 0
    /\ \E w \in WinSizes \ {termSz} : termSz' = w
    /\ resizesLeft' = resizesLeft - 1
    /\ sigInFlight' = handlerInstalled
    /\ UNCHANGED << pc, exitCode, diag, outVars, argVars, codecVars, termVars, sz, sz2,
                    szBefore, wakeupCreated, handlerInstalled, wakeup, setsSinceReset, wakesSinceSet, sigSeen,
                    handleVars, workers, agentVars, exitVars >>

\* terminalResized(signo): mainWakeup().set()
TerminalResized ==
    /\ Running
    /\ sigInFlight
    /\ sigInFlight' = FALSE
    /\ wakeup' = WakeupSet(wakeup)
    /\ setsSinceReset' = setsSinceReset + 1
    /\ wakesSinceSet' = 0
    /\ sigSeen' = TRUE
    /\ UNCHANGED << pc, exitCode, diag, outVars, argVars, codecVars, termVars, sizeVars,
                    wakeupCreated, handlerInstalled, handleVars, workers, agentVars, exitVars >>

\* an I/O handler's thread ends: it is complete and sets the wakeup
WorkerComplete(w) ==
    /\ Running
    /\ workers[w] = "running"
    /\ workers' = [workers EXCEPT ![w] = "complete"]
    /\ wakeup' = WakeupSet(wakeup)
    /\ setsSinceReset' = setsSinceReset + 1
    /\ wakesSinceSet' = 0
    /\ UNCHANGED << pc, exitCode, diag, outVars, argVars, codecVars, termVars, sizeVars,
                    wakeupCreated, handlerInstalled, sigInFlight, sigSeen, handleVars, agentVars,
                    exitVars >>

WorkerCompletes == \E w \in Workers : WorkerComplete(w)

(***************************************************************************)
(* The codec on its own (see InitCodec).                                   *)
(***************************************************************************)
\* out.childArgv.push_back(arg)
PushChildArg ==
    /\ pc = "collect"
    /\ Len(childArgv) < MaxArgc
    /\ \E arg \in Strings(MaxTotalLen - SumLen(childArgv)) :
           childArgv' = Append(childArgv, arg)
    /\ UNCHANGED << pc, exitCode, diag, outVars, argv, argi, mouseInput,
                    testPlainOutput, testColorEscapes, testConerr, testAllowNonTtys,
                    doShowKeys, codecVars, termVars, sizeVars, wakeVars, handleVars, workers,
                    agentVars, exitVars >>

\* the command line handed to winpty_spawn
BuildCmdLine ==
    /\ pc = "collect"
    /\ childCmdLine' = argvToCommandLine(childArgv)
    /\ cmdLineW' = BuildCmdLineW(SelfPath, childCmdLine')
    /\ pc' = "spawned"
    /\ UNCHANGED << exitCode, diag, outVars, argVars, stubArgv, termVars, sizeVars, wakeVars,
                    handleVars, workers, agentVars, exitVars >>

\* the spawned process splits its command line and takes the --child-exec path
StubMain ==
    /\ pc = "spawned"
    /\ stubArgv' = ChildExecArgv(CommandLineToArgv(cmdLineW))
    /\ pc' = "stub_exec"
    /\ UNCHANGED << exitCode, diag, outVars, argVars, childCmdLine, cmdLineW, termVars,
                    sizeVars, wakeVars, handleVars, workers, agentVars, exitVars >>

(***************************************************************************)
(* Specifications.                                                         *)
(***************************************************************************)
ProgramStep ==
    \/ MainEntry \/ ParseArg \/ ParseRest
    \/ MainStart \/ InitialProbe \/ WinptyOpen \/ OpenChannels \/ Spawn
    \/ RegisterResizeSignalHandler
    \/ RawEnter \/ RawScan \/ RawStdin \/ RawOut
    \/ CreateHandlers \/ Select \/ Reset \/ Probe \/ Compare \/ CheckComplete
    \/ WinptyFree \/ InputShutdown \/ OutputShutdown \/ CloseConin \/ CloseConout
    \/ ErrorShutdown \/ CloseConerr
    \/ RestoreEnter \/ RestoreStep \/ RestoreReturn \/ ShowKeyRead
    \/ GetExitCode \/ CloseChildAndReturn

Next == ProgramStep \/ TerminalResize \/ TerminalResized \/ WorkerCompletes

Spec == Init /\ [][Next]_vars

\* the main thread is scheduled as long as it can run: it is blocked only in
\* the readiness wait, while the wakeup is not pending
SpecFair == InitFair /\ [][Next]_vars /\ WF_vars(ProgramStep)

\* no resizes: the terminal modes under every assignment of the streams
NextTermios == ProgramStep \/ WorkerCompletes

SpecTermios == InitTermios /\ [][NextTermios]_vars

\* the start of a run under any command line, up to the opening of the back
\* end, with debugShowKey
NextArgs ==
    \/ MainEntry \/ ParseArg \/ ParseRest \/ MainStart \/ InitialProbe \/ WinptyOpen
    \/ RawEnter \/ RawScan \/ RawStdin \/ RawOut \/ ShowKeyRead
    \/ RestoreEnter \/ RestoreStep \/ RestoreReturn

SpecArgs == InitArgs /\ [][NextArgs]_vars

NextCodec == PushChildArg \/ BuildCmdLine \/ StubMain

SpecCodec == InitCodec /\ [][NextCodec]_vars

(***************************************************************************)
(* The claims.                                                             *)
(***************************************************************************)
\* C1: splitting the encoded command line with the platform's algorithm gives
\* back the argument vector, element for element, and the --child-exec stub
\* hands the same vector to execvp.
C1_RoundTrip ==
    pc \in {"spawned", "stub_exec"} =>
        /\ CommandLineToArgv(childCmdLine) = childArgv
        /\ (pc = "stub_exec" /\ Len(childArgv) >= 1) =>
               (stubArgv.exec /\ stubArgv.argv = childArgv)

C1_Witness ==
    /\ pc = "stub_exec"
    /\ childArgv = << << CH, SP, BS >>, << QUOTE >>, << >> >>
    /\ stubArgv.exec
    /\ stubArgv.argv = childArgv

\* C2: a run that entered the shutdown sequence exits with the child's exit code
\* when GetExitCodeProcess succeeded and with 1 otherwise (the query failed, or
\* restoreTerminalMode exited before it).
C2_ExitCode ==
    (pc = "exited" /\ wp = "freed") =>
        exitCode = (IF queryOk = "ok" THEN childCode ELSE 1)

C2_Witness ==
    /\ pc = "exited"
    /\ wp = "freed"
    /\ childHandle = "closed"
    /\ queryOk = "ok"
    /\ childCode = 259
    /\ exitCode = 259

\* a channel handle has been closed
AnyHandleClosed == conin = "closed" \/ conout = "closed" \/ conerr = "closed"

\* every active I/O handler has returned from shutdown()
AllWorkersStopped ==
    /\ workers["input"] = "stopped"
    /\ workers["output"] = "stopped"
    /\ testConerr => workers["error"] = "stopped"

\* main has called restoreTerminalMode
MainRestoreBegun ==
    /\ rawCaller = "main"
    /\ \/ pc \in {"restore_enter", "restore", "restored", "getexit", "close_child"}
       \/ \E i \in Streams : "restore" \in touched[i]

\* C3: the session is freed before any channel handle is closed, and main
\* restores the terminal modes only after every active I/O handler (input,
\* output, error with -Xconerr) has been shut down.
C3_ShutdownOrder ==
    /\ AnyHandleClosed => wp = "freed"
    /\ MainRestoreBegun => AllWorkersStopped

C3_Witness ==
    /\ testConerr
    /\ pc = "restored"
    /\ wp = "freed"
    /\ conin = "closed" /\ conout = "closed" /\ conerr = "closed"
    /\ AllWorkersStopped
    /\ \E i \in Streams : "restore" \in touched[i]

\* C4 as stated: every active I/O handler (the error handler included) has
\* been shut down before any channel handle is closed.
C4_AllStoppedBeforeAnyClose == AnyHandleClosed => AllWorkersStopped

\* C4 amended: the input and output handlers have been shut down before any
\* channel handle is closed, and the error handler before conerr is closed.
C4_StoppedBeforeOwnClose ==
    /\ AnyHandleClosed =>
           (workers["input"] = "stopped" /\ workers["output"] = "stopped")
    /\ conerr = "closed" => workers["error"] = "stopped"

C4_Witness ==
    /\ testConerr
    /\ pc = "restore_enter"
    /\ conin = "closed" /\ conout = "closed" /\ conerr = "closed"
    /\ AllWorkersStopped

\* the step of the main loop that compares the probed size with the cached one
CompareStep == pc = "compare" /\ pc' = "check"

\* winpty_set_size is called in this step, with these columns and rows
SetSizeCalled(cols, rows) ==
    /\ setSizeCalls' = setSizeCalls + 1
    /\ agentSize' = << cols, rows >>

\* C5 as stated: the loop calls winpty_set_size exactly in the iterations
\* whose probed (columns, rows) differ from the cached pair, with the probed
\* columns and rows.
C5_CallIffColsRowsDiffer ==
    [][CompareStep =>
           IF << sz2.ws_col, sz2.ws_row >> # << sz.ws_col, sz.ws_row >>
           THEN SetSizeCalled(sz2.ws_col, sz2.ws_row)
           ELSE UNCHANGED << setSizeCalls, agentSize >>]_vars

\* C5 amended: the loop calls winpty_set_size exactly in the iterations whose
\* probed winsize differs from the cached winsize in any of its four fields
\* (rows, columns, pixel width, pixel height), with the probed columns and
\* rows, and the cached winsize becomes the probed one.
C5_CallIffWinsizeDiffers ==
    [][CompareStep =>
           IF sz2 # sz
           THEN SetSizeCalled(sz2.ws_col, sz2.ws_row) /\ sz' = sz2
           ELSE UNCHANGED << setSizeCalls, agentSize, sz >>]_vars

\* a call of winpty_set_size(80, 25) made while 80 x 25 was cached
C5_Witness ==
    /\ pc = "check"
    /\ szBefore = WinSize(80, 25, 0, 0)
    /\ sz = WinSize(80, 25, 640, 400)
    /\ agentSize = << 80, 25 >>
    /\ setSizeCalls = 1

\* C6: however many set() calls precede a reset(), the readiness wait returns
\* once for them: it returns only with a set() since the last reset(), and it
\* does not return a second time unless set() is called again.
C6_OneWakePerSets ==
    /\ wakesSinceSet <= 1
    /\ wakeup <=> setsSinceReset >= 1
    /\ pc = "reset" => setsSinceReset >= 1

\* the wait has returned once after two set() calls
C6_Witness ==
    /\ pc = "reset"
    /\ wakeup
    /\ setsSinceReset >= 2
    /\ wakesSinceSet = 1

\* C7: no resize is lost: once a SIGWINCH has been handled, whenever the loop
\* is blocked in the readiness wait with no wakeup pending and no signal
\* outstanding, the cached size is the terminal's size.
C7_NoLostResize ==
    (pc = "select" /\ ~wakeup /\ ~sigInFlight /\ sigSeen /\ fdTerm[0] # 0)
        => sz = termSz

C7_Witness ==
    /\ pc = "select"
    /\ ~wakeup
    /\ ~sigInFlight
    /\ sigSeen
    /\ fdTerm[0] # 0
    /\ resizesLeft = 0
    /\ setSizeCalls = 2
    /\ sz = termSz

\* a stream has been put into raw mode
RawApplied == \E i \in Streams : "set" \in touched[i]

\* C8: every snapshot is captured before any stream is changed, and when
\* restoreTerminalMode has returned, every stream marked valid has the
\* attributes it had before setRawTerminalMode was called, whichever streams
\* are terminals, requested, or the same terminal.
C8_RestoreIsIdentity ==
    /\ pc = "restored" =>
           \A i \in Streams : mode.valid[i] => termAttr[fdTerm[i]] = attr0[fdTerm[i]]
    /\ RawApplied =>
           \A i \in Streams : mode.valid[i] => mode.mode[i] = attr0[fdTerm[i]]

\* the three streams on one terminal, all requested
C8_Witness ==
    /\ pc = "restored"
    /\ testConerr
    /\ rawCaller = "main"
    /\ \A i \in Streams : fdTerm[i] = 1 /\ mode.valid[i] /\ "set" \in touched[i]
    /\ attr0[1] = Cooked7
    /\ termAttr[1] = Cooked7

\* C9: a stream whose validity flag is false (not requested, or no terminal
\* with -Xallow-non-tty) has had no tcgetattr, no tcsetattr and no restore; and
\* the snapshot setRawTerminalMode returned is the one restoreTerminalMode uses.
C9_InvalidUntouched ==
    /\ \A i \in Streams : ~mode.valid[i] => touched[i] = {}
    /\ savedAtReturn # NoSavedMode => mode = savedAtReturn

\* stdout is no terminal and is skipped by the capture, the raw mode and the restore
C9_Witness ==
    /\ pc = "restored"
    /\ rawCaller = "main"
    /\ testAllowNonTtys
    /\ fdTerm[1] = 0
    /\ ~mode.valid[1]
    /\ touched[1] = {}
    /\ mode.valid[0]
    /\ "restore" \in touched[0]
    /\ mode = savedAtReturn

\* C10: whenever the process has exited after raw mode was applied to a
\* stream, the saved attributes of every valid stream have been reapplied
\* (tcsetattr called with them).
C10_NoExitLeavesRaw ==
    (pc = "exited" /\ RawApplied) =>
        \A i \in Streams : mode.valid[i] => "restore" \in touched[i]

\* the session's state, read from what the process holds
SessionState ==
    IF childHandle = "closed" THEN "Closed"
    ELSE IF wp = "freed" THEN "ShuttingDown"
    ELSE IF \E w \in Workers : workers[w] # "none" THEN "Running"
    ELSE IF childHandle = "open" THEN "ChildSpawned"
    ELSE IF wp = "open" THEN "Opened"
    ELSE "Unopened"

SessionChain ==
    { << "Unopened", "Opened" >>, << "Opened", "ChildSpawned" >>,
      << "ChildSpawned", "Running" >>, << "Running", "ShuttingDown" >>,
      << "ShuttingDown", "Closed" >> }

\* the main loop's steps
LoopPcs == {"select", "reset", "probe", "compare", "check"}

\* C11: the session's state changes only to the next state of Unopened, Opened,
\* ChildSpawned, Running, ShuttingDown, Closed; a failed winpty_open ends the
\* process in Unopened and a failed winpty_spawn ends it in Opened with exit
\* code 1; the I/O handlers and the main loop exist only with a spawned child.
C11_SessionOrder ==
    /\ [][SessionState' # SessionState =>
              << SessionState, SessionState' >> \in SessionChain]_vars
    /\ [](diag = "Error creating winpty" =>
              pc = "exited" /\ exitCode = 1 /\ SessionState = "Unopened")
    /\ []((pc = "exited" /\ SessionState = "Opened") =>
              exitCode = 1 /\ diag \in {"Could not start", "Could not start: internal error"})
    /\ [](diag \in {"Could not start", "Could not start: internal error"} =>
              pc = "exited" /\ SessionState = "Opened")
    /\ []((pc \in LoopPcs \/ \E w \in Workers : workers[w] # "none") =>
              childHandle # "none")

\* a session that went through every state
C11_Witness ==
    /\ pc = "exited"
    /\ SessionState = "Closed"
    /\ wp = "freed"
    /\ workers["input"] = "stopped" /\ workers["output"] = "stopped"
    /\ setSizeCalls >= 1

\* the process went the --child-exec way and did nothing else
ChildExecOnly ==
    /\ pc \in {"start", "execed", "exited"}
    /\ ~wakeupCreated
    /\ argi = 1 /\ childArgv = << >> /\ stdoutText = "none"
    /\ wp = "none" /\ childHandle = "none" /\ conin = "none"
    /\ \A i \in Streams : touched[i] = {}
    /\ termAttr = attr0
    /\ pc = "execed" => (stubArgv.exec /\ stubArgv.argv = SubSeq(argv, 3, Len(argv)))
    /\ pc = "exited" => (exitCode = 1 /\ diag = "error: exec failed")

\* C12 as stated: with --child-exec as argv[1] the process image is replaced by
\* the program of the next argument, or an error is printed and the exit code
\* is 1; no wakeup is created, no option parsed, no back end opened, no child
\* spawned, no terminal mode touched.
C12_ChildExecAlways ==
    (Len(argv) >= 2 /\ argv[2] = ChildExecMarker) => ChildExecOnly

\* C12 amended: the same, for --child-exec as argv[1] followed by at least one
\* more argument.
C12_ChildExecWithProgram ==
    (Len(argv) >= 3 /\ argv[2] = ChildExecMarker) => ChildExecOnly

\* --child-exec of a program that cannot be executed
C12_Witness ==
    /\ argv = << Program, ChildExecMarker, << CH >> >>
    /\ pc = "exited"
    /\ exitCode = 1
    /\ diag = "error: exec failed"
    /\ stubArgv.argv = << << CH >> >>

\* the options after which the parsing goes on and the session is set up
PlainFlags == { OptMouse, OptAllowNonTty, OptConerr, OptPlain, OptColor }

\* the position of the first "--" or first argument not starting with '-', from k
RECURSIVE OptionEnd(_, _)
OptionEnd(a, k) ==
    IF k > Len(a) THEN k
    ELSE IF a[k] = DashDash \/ ~IsOption(a[k]) THEN k
    ELSE OptionEnd(a, k + 1)

\* the arguments in option position
OptionArgs(a) == SubSeq(a, 2, OptionEnd(a, 2) - 1)

\* the arguments of the child: what follows "--", or the first argument not
\* starting with '-' and what follows it
ChildArgs(a) ==
    LET e == OptionEnd(a, 2)
    IN  IF e > Len(a) THEN << >>
        ELSE IF a[e] = DashDash THEN SubSeq(a, e + 1, Len(a))
        ELSE SubSeq(a, e, Len(a))

\* the option that decides a run that sets no session up: the first of the
\* options in option position that ends the parsing, else --showkey if given
Deciding(a) ==
    LET o == OptionArgs(a)
        enders == { k \in 1..Len(o) : o[k] \notin PlainFlags \cup {OptShowkey} }
    IN  IF enders # {}
        THEN LET k == CHOOSE j \in enders : \A i \in enders : j <= i
             IN  IF o[k] \in {OptH, OptHelp} THEN "help"
                 ELSE IF o[k] = OptVersion THEN "version"
                 ELSE "unrecognized"
        ELSE IF \E k \in 1..Len(o) : o[k] = OptShowkey THEN "showkey"
        ELSE "none"

\* C13: with no child program (no arguments, or only options after which the
\* parsing goes on), the usage text is written to stderr, the exit code is 1
\* and no session is created.
C13_UsageOnStderr ==
    (\A k \in 2..Len(argv) : argv[k] \in PlainFlags) =>
        /\ wp = "none" /\ childHandle = "none"
        /\ pc = "exited" => (exitCode = 1 /\ diag = "usage" /\ stdoutText = "none")

\* parseArguments is over
Parsed ==
    pc \in {"main", "probe0", "open", "channels", "raw_enter", "raw_scan", "raw_stdin",
            "raw_out", "showkey_read", "restore_enter", "restore", "restored"}

\* the back end is opened only under plain flags and with a child program, and
\* the child's arguments are the command line's, as they are
OpenOnlyWithChild ==
    /\ wp # "none" =>
           /\ \A k \in 1..Len(OptionArgs(argv)) : OptionArgs(argv)[k] \in PlainFlags
           /\ ChildArgs(argv) # << >>
    /\ Parsed => childArgv = ChildArgs(argv)
    /\ (pc = "exited" /\ wp = "none" /\ Deciding(argv) = "unrecognized") => exitCode = 1
    /\ (pc = "exited" /\ wp = "none" /\ Deciding(argv) \in {"help", "version"}) =>
           exitCode = 0

\* a terminal call of debugShowKey failed, or stdin is no terminal
TerminalFailure ==
    diag \in {"is not a tty", "tcgetattr failed", "tcsetattr failed",
              "error restoring terminal mode"}

\* C14 as stated: the back end is opened only when every argument in option
\* position is a plain flag and a child argument remains; otherwise the run
\* ends with no session, with exit code 0 when -h, --help, --version or
\* --showkey decides and 1 when an unrecognized option does; the arguments
\* after "--" or from the first one not starting with '-' go to the child as
\* they are.
C14_ShowkeyExitsZero ==
    /\ OpenOnlyWithChild
    /\ (pc = "exited" /\ wp = "none" /\ Deciding(argv) = "showkey") => exitCode = 0

\* C14 amended: the same, but when --showkey decides the exit code is 1 if
\* stdin is no terminal (without -Xallow-non-tty) or a terminal call fails, and
\* 0 otherwise.
C14_ShowkeyExitsZeroUnlessTerminalFails ==
    /\ OpenOnlyWithChild
    /\ (pc = "exited" /\ wp = "none" /\ Deciding(argv) = "showkey") =>
           exitCode = (IF TerminalFailure THEN 1 ELSE 0)

\* an option after "--" goes to the child and the back end is opened
C14_Witness ==
    /\ argv = << Program, OptConerr, DashDash, OptH >>
    /\ wp = "open"
    /\ testConerr
    /\ childArgv = << OptH >>

\* the loop's probe: the step from the ioctl to the comparison
ProbeStep == pc = "probe" /\ pc' = "compare"

\* the loop's reading of the completion flags
CheckStep == pc = "check" /\ pc' # "check"

\* C15: in every iteration the completion flags are read only after the probe and
\* the comparison of that iteration, whose winpty_set_size call is made on the
\* open session; the loop is left from the reading of the flags only, so the
\* iteration that sees a handler complete has forwarded a size its probe found
\* changed, and winpty_free comes after.
C15_ForwardBeforeCheck ==
    /\ [][/\ (pc' = "compare" /\ pc # "compare") => ProbeStep
          /\ (pc' = "check" /\ pc # "check") => CompareStep
          /\ (pc' = "free" /\ pc # "free") => CheckStep
          /\ CompareStep =>
                 /\ wp = "open"
                 /\ sz2 # sz => (SetSizeCalled(sz2.ws_col, sz2.ws_row) /\ sz' = sz2)
          /\ CheckStep => UNCHANGED << sz, agentSize, setSizeCalls, wp >>
          /\ setSizeCalls' # setSizeCalls => (wp = "open" /\ wp' = "open")]_vars
    /\ [](pc \in {"check", "free"} =>
              /\ wp = "open"
              /\ agentSize = << sz.ws_col, sz.ws_row >>
              /\ sz # szBefore => setSizeCalls >= 1)

\* the loop is left in an iteration that found both a new size and a handler
\* complete
C15_Witness ==
    /\ pc = "free"
    /\ wp = "open"
    /\ workers["output"] = "complete"
    /\ szBefore = WinSize(80, 25, 0, 0)
    /\ sz = WinSize(120, 40, 0, 0)
    /\ agentSize = << 120, 40 >>
    /\ setSizeCalls = 1

\* the shutdown sequence ran to its end, or restoreTerminalMode failed and exited
ShutdownEnded ==
    /\ pc = "exited"
    /\ wp = "freed"
    /\ \/ /\ \A i \in Streams : mode.valid[i] => "restore" \in touched[i]
          /\ queryOk # "notyet"
          /\ childHandle = "closed"
          /\ exitCode = localExit
       \/ /\ diag = "error restoring terminal mode"
          /\ exitCode = 1

\* C16: the loop is left only from a completion check that finds an active I/O
\* handler complete (the error handler exists only with -Xconerr); and, the
\* main thread being scheduled, once a handler is complete with the wakeup set
\* the loop is left and the shutdown sequence runs to the process's exit.
C16_LoopExit ==
    /\ [][(pc' = "free" /\ pc # "free") => (CheckStep /\ AnyComplete)]_vars
    /\ [](~testConerr => workers["error"] = "none")
    /\ ((pc \in LoopPcs /\ AnyComplete) ~> ShutdownEnded)

\* the wait is entered with the output handler complete and the wakeup pending
C16_Witness ==
    /\ pc = "select"
    /\ wakeup
    /\ workers["output"] = "complete"
    /\ workers["input"] = "running"
    /\ wakesSinceSet = 0

\* the spawn diagnostic has been written
SpawnFailed == diag \in {"Could not start", "Could not start: internal error"}

\* C17: a failed spawn is fatal and reported by its class: for the create-process
\* failure the diagnostic holds the text of the OS error code, or "error 0x.."
\* when there is no text; for any other error code it holds the back end's error
\* message; the exit code is 1, and no terminal mode has been changed and no I/O
\* handler created.
C17_SpawnFailureReported ==
    /\ diag = "Could not start" =>
           \E err \in LastErrors :
               IF errorMessageToString(err) = ""
               THEN diagArg = << HexText(err) >>
               ELSE Len(diagArg) >= 1 /\ diagArg[1] = errorMessageToString(err)
    /\ diag = "Could not start: internal error" => diagArg = << "winpty_error_msg" >>
    /\ SpawnFailed =>
           /\ pc = "exited" /\ exitCode = 1
           /\ childHandle = "none"
           /\ \A i \in Streams : touched[i] = {}
           /\ termAttr = attr0
           /\ \A w \in Workers : workers[w] = "none"

\* CreateProcess failed with a code FormatMessageW has no text for
C17_Witness ==
    /\ pc = "exited"
    /\ exitCode = 1
    /\ diag = "Could not start"
    /\ diagArg = << "error 0x4d2" >>
    /\ wp = "open"

\* the reference encoding of one argument from position k: a run of n
\* backslashes before a quote becomes 2n + 1 and the quote, a run at the end of
\* a quoted argument 2n, any other run n
RECURSIVE RefRuns(_, _, _)
RefRuns(arg, k, quoted) ==
    IF k > Len(arg) THEN << >>
    ELSE IF arg[k] = BS THEN
        LET n == BsRun(arg, k)
            e == k + n
        IN  IF e <= Len(arg) /\ arg[e] = QUOTE
            THEN Rep(2 * n + 1, BS) \o << QUOTE >> \o RefRuns(arg, e + 1, quoted)
            ELSE IF e > Len(arg) /\ quoted THEN Rep(2 * n, BS)
            ELSE Rep(n, BS) \o RefRuns(arg, e, quoted)
    ELSE IF arg[k] = QUOTE THEN << BS, QUOTE >> \o RefRuns(arg, k + 1, quoted)
    ELSE << arg[k] >> \o RefRuns(arg, k + 1, quoted)

RefQuoted(arg) == arg = << >> \/ \E k \in 1..Len(arg) : arg[k] \in {SP, TAB}

RefArg(arg) ==
    IF RefQuoted(arg) THEN << QUOTE >> \o RefRuns(arg, 1, TRUE) \o << QUOTE >>
    ELSE RefRuns(arg, 1, FALSE)

RECURSIVE RefEncode(_)
RefEncode(a) ==
    IF a = << >> THEN << >>
    ELSE IF Len(a) = 1 THEN RefArg(a[1])
    ELSE RefArg(Head(a)) \o << SP >> \o RefEncode(Tail(a))

\* C18: argvToCommandLine gives the reference encoding: the arguments joined by
\* one space each, an argument in double quotes exactly when it holds a space or
\* a tab or is empty, and the runs of backslashes as RefRuns has them.
C18_MatchesReference ==
    pc \in {"spawned", "stub_exec"} => childCmdLine = RefEncode(childArgv)

\* \" and (space)\ encode as \\\" and "(space)\\"
C18_Witness ==
    /\ pc = "spawned"
    /\ childArgv = << << BS, QUOTE >>, << SP, BS >> >>
    /\ childCmdLine = << BS, BS, BS, QUOTE, SP, QUOTE, SP, BS, BS, QUOTE >>

\* C19: when the process exits because a required stream is no terminal and
\* -Xallow-non-tty was not given, no session has been opened, no child spawned
\* and no terminal attribute changed.
C19_NotATtyBeforeSession ==
    diag = "is not a tty" =>
        /\ pc = "exited" /\ exitCode = 1 /\ ~testAllowNonTtys
        /\ wp = "none"
        /\ childHandle = "none"
        /\ termAttr = attr0

\* C20: whenever the loop waits, the cached columns and rows are those last
\* given to the back end, by the initial size or by winpty_set_size; at first
\* both are what the initial probe read, or 80 x 25 when it failed.
C20_CachedIsForwarded ==
    /\ pc = "select" => agentSize = << sz.ws_col, sz.ws_row >>
    /\ (wp # "none" /\ setSizeCalls = 0) =>
           /\ agentSize = << sz.ws_col, sz.ws_row >>
           /\ fdTerm[0] = 0 => agentSize = << 80, 25 >>
    /\ (pc = "open" /\ resizesLeft = MaxResizes) =>
           sz = (IF fdTerm[0] # 0 THEN termSz ELSE DefaultSz)

\* the loop waits after a resize to 120 x 40 was forwarded
C20_Witness ==
    /\ pc = "select"
    /\ ~wakeup
    /\ setSizeCalls = 1
    /\ szBefore = WinSize(80, 25, 0, 0)
    /\ sz = WinSize(120, 40, 0, 0)
    /\ agentSize = << 120, 40 >>

\* the state of an owned resource: "none", "open", and "freed" or "closed"
Held(r) ==
    IF r = "wp" THEN wp
    ELSE IF r = "conin" THEN conin
    ELSE IF r = "conout" THEN conout
    ELSE IF r = "conerr" THEN conerr
    ELSE childHandle

\* main returned: the run went through the whole shutdown sequence
NormalExit == pc = "exited" /\ queryOk # "notyet"

\* restoreTerminalMode(mode) has returned to main
MainRestoreDone ==
    /\ rawCaller = "main"
    /\ pc \in {"getexit", "close_child"}
    /\ \A i \in Streams : mode.valid[i] => "restore" \in touched[i]

\* C21: each owned resource (the session, conin, conout, conerr when opened, the
\* child's handle) is released once, while it is open, and on a run that returns
\* from main every one that was opened has been released; nothing is used after
\* its release: winpty_set_size is called on the open session only, an I/O
\* handler is stopped before its channel handle is closed, and the child's exit
\* code is queried after the terminal modes are restored and before its handle
\* is closed.
C21_ReleasedOnce ==
    /\ [][/\ \A r \in Resources :
                 released'[r] # released[r] =>
                     (released[r] = 0 /\ released'[r] = 1 /\ Held(r) = "open")
          /\ setSizeCalls' # setSizeCalls => (wp = "open" /\ released["wp"] = 0)
          /\ queryOk' # queryOk =>
                 /\ MainRestoreDone
                 /\ childHandle = "open" /\ childHandle' = "open"
                 /\ released'["childHandle"] = 0
          /\ released'["childHandle"] # released["childHandle"] => queryOk # "notyet"]_vars
    /\ [](\A r \in Resources :
              /\ released[r] <= 1
              /\ released[r] = 1 <=> Held(r) \in {"freed", "closed"})
    /\ [](NormalExit =>
              \A r \in Resources :
                  released[r] = (IF r = "conerr" /\ ~testConerr THEN 0 ELSE 1))
    /\ [](/\ released["wp"] = 1 => pc \notin LoopPcs
          /\ released["conin"] = 1 => workers["input"] = "stopped"
          /\ released["conout"] = 1 => workers["output"] = "stopped"
          /\ released["conerr"] = 1 => workers["error"] = "stopped")

\* a session with the error channel returned from main after a resize
C21_Witness ==
    /\ NormalExit
    /\ testConerr
    /\ \A r \in Resources : released[r] = 1
    /\ queryOk = "ok"
    /\ setSizeCalls >= 1
    /\ exitCode = childCode
====
